---- MODULE Spec2Model ----
(***************************************************************************)
(* Model of cumulus/s3.py (S3 helper functions) and cumulus_process/cli.py *)
(* (command line dispatcher).                                              *)
(*                                                                         *)
(* Python strings are sequences of one-character strings, so that          *)
(* str.replace, str.split, os.path.join, os.path.basename and              *)
(* os.path.splitext are computed character by character as the library    *)
(* computes them.  One behaviour is one call: Init draws the function and  *)
(* its arguments, the function's action draws the answers of the outside   *)
(* world (S3, the local file system, the Granule class) and runs the       *)
(* function to its end, recording in `world` the answers drawn, in `trace` *)
(* the side effects in program order, in `files` the local files written   *)
(* and in `outcome` the value returned or the exception raised.            *)
(***************************************************************************)
EXTENDS Integers, Sequences, FiniteSets, TLC

VARIABLES call, pc, world, outcome, trace, files

vars == <<call, pc, world, outcome, trace, files>>

(* ------------------------------ bounds --------------------------------- *)

\* number of pieces an input uri is concatenated from
MaxPieces == 4
\* number of objects in one list_objects_v2 response
MaxContents == 2
\* number of command line tokens after the subcommand
MaxArgs == 3

(* --------------------------- Python strings ---------------------------- *)

S3Prefix == <<"s", "3", ":", "/", "/">>

Slash == <<"/">>

StartsWith(s, p) == Len(s) >= Len(p) /\ SubSeq(s, 1, Len(p)) = p

EndsWith(s, p) == Len(s) >= Len(p) /\ SubSeq(s, Len(s) - Len(p) + 1, Len(s)) = p

Drop(s, n) == SubSeq(s, n + 1, Len(s))

\* str.replace('s3://', ''): every non-overlapping occurrence, left to right
RECURSIVE Replace(_)
Replace(s) ==
  IF Len(s) = 0 THEN <<>>
  ELSE IF StartsWith(s, S3Prefix) THEN Replace(Drop(s, Len(S3Prefix)))
  ELSE <<Head(s)>> \o Replace(Tail(s))

\* str.split('/'): never empty, keeps empty segments
RECURSIVE Split(_)
Split(s) ==
  IF \A i \in 1..Len(s) : s[i] # "/" THEN <<s>>
  ELSE LET i == CHOOSE j \in 1..Len(s) :
                  s[j] = "/" /\ \A k \in 1..(j - 1) : s[k] # "/"
       IN <<SubSeq(s, 1, i - 1)>> \o Split(Drop(s, i))

\* '/'.join(segs)
RECURSIVE Join(_)
Join(segs) ==
  IF Len(segs) = 0 THEN <<>>
  ELSE IF Len(segs) = 1 THEN segs[1]
  ELSE segs[1] \o Slash \o Join(Tail(segs))

\* posixpath.join(a, b)
os_path_join(a, b) ==
  IF StartsWith(b, Slash) THEN b
  ELSE IF Len(a) = 0 \/ EndsWith(a, Slash) THEN a \o b
  ELSE a \o Slash \o b

\* posixpath.basename(p): what follows the last '/'
os_path_basename(p) == LET segs == Split(p) IN segs[Len(segs)]

\* a splitext that leaves the extension on
splitext_keep(p) == p

\* genericpath._splitext(p)[0] for a path without '/': the part before the
\* last '.', unless only '.' characters precede that dot
splitext_root(p) ==
  LET dots == {i \in 1..Len(p) : p[i] = "."}
  IN IF dots = {} THEN p
     ELSE LET d == CHOOSE i \in dots : \A j \in dots : j <= i
          IN IF \E k \in 1..(d - 1) : p[k] # "." THEN SubSeq(p, 1, d - 1) ELSE p

(* ----------------------------- exceptions ------------------------------ *)

\* an exception object: its class, whether it has a .response attribute
\* (botocore ClientError has, BotoCoreError subclasses and OSError have
\* not) and response['Error']['Code']
Exc(type, hasResponse, code) ==
  [type |-> type, hasResponse |-> hasResponse, code |-> code]

NoExc == Exc("none", FALSE, "")

InvalidS3Uri == Exc("Exception", FALSE, "Invalid S3 uri")

ClientErrors == {Exc("ClientError", TRUE, "NoSuchKey"),
                 Exc("ClientError", TRUE, "AccessDenied")}

\* failures of the request that carry no provider error code
ConnectionErrors == {Exc("EndpointConnectionError", FALSE, "")}

StoreErrors == ClientErrors \cup ConnectionErrors

None == "None"

Return(v) == [kind |-> "return", value |-> v, exc |-> NoExc]

Raise(e) == [kind |-> "raise", value |-> None, exc |-> e]

\* what a function did: its outcome, its side effects in order, local files
Result(o, t, f) == [outcome |-> o, trace |-> t, files |-> f]

(* ------------------------------ uri_parser ----------------------------- *)

\* 's3://' in uri: the scheme looked for anywhere in the string
accepts_anywhere(uri) ==
  \E i \in 1..Len(uri) : StartsWith(Drop(uri, i - 1), S3Prefix)

\* uri[0:5] == 's3://'
accepts(uri) == SubSeq(uri, 1, IF Len(uri) < 5 THEN Len(uri) ELSE 5) = S3Prefix

uri_parser(uri) ==
  IF ~accepts(uri) THEN Raise(InvalidS3Uri)
  ELSE LET uri_obj == Split(Replace(uri))
       IN Return([bucket |-> uri_obj[1],
                  key |-> Join(Tail(uri_obj)),
                  filename |-> uri_obj[Len(uri_obj)]])

(* ------------------------------ documents ------------------------------ *)

\* a Python value: None, a dict of string items in insertion order, or an
\* object json cannot serialize
Doc(t, items) == [t |-> t, items |-> items]

PyNone == Doc("null", <<>>)

JsonDocs == {PyNone,
             Doc("dict", <<>>),
             Doc("dict", << <<<<"k">>, <<"v">>>> >>)}

NotSerializable == Doc("object", <<>>)

Quoted(s) == <<"\"">> \o s \o <<"\"">>

RECURSIVE DumpItems(_)
DumpItems(items) ==
  IF Len(items) = 0 THEN <<>>
  ELSE Quoted(items[1][1]) \o <<":", " ">> \o Quoted(items[1][2])
       \o (IF Len(items) = 1 THEN <<>> ELSE <<",", " ">> \o DumpItems(Tail(items)))

\* json.dumps(d) of a serializable d, default separators
json_dumps(d) ==
  IF d.t = "null" THEN <<"n", "u", "l", "l">>
  ELSE <<"{">> \o DumpItems(d.items) \o <<"}">>

\* json.loads(s): the document s is the text of, ValueError otherwise
json_loads(s) ==
  IF \E d \in JsonDocs : json_dumps(d) = s
  THEN Return(CHOOSE d \in JsonDocs : json_dumps(d) = s)
  ELSE Raise(Exc("ValueError", FALSE, ""))

(* -------------------------- the outside world -------------------------- *)

\* object bodies in the store
Bodies == {json_dumps(d) : d \in JsonDocs} \cup {<<"x">>}

\* answer of a store request: success with a body, or an exception
Ok(body) == [ok |-> TRUE, body |-> body, err |-> NoExc]

Failed(e) == [ok |-> FALSE, body |-> <<>>, err |-> e]

GetResponses == {Ok(b) : b \in Bodies} \cup {Failed(e) : e \in StoreErrors}

PutResponses == {Ok(<<>>)} \cup {Failed(e) : e \in StoreErrors}

\* what follows the prefix in the keys list_objects_v2 reports
Suffixes == {<<"a">>, <<"/", "a">>, <<"a", "/", "b">>}

RECURSIVE DistinctSeqs(_)
DistinctSeqs(n) ==
  IF n = 0 THEN {<<>>}
  ELSE LET prev == DistinctSeqs(n - 1)
       IN prev \cup {Append(q, x) : q \in prev, x \in Suffixes}

\* list_objects_v2 answers: no 'Contents' entry, or 'Contents' with up to
\* MaxContents distinct keys, or an exception
ListResponses ==
  {[ok |-> TRUE, hasContents |-> FALSE, suffixes |-> <<>>, err |-> NoExc]}
  \cup {[ok |-> TRUE, hasContents |-> TRUE, suffixes |-> q, err |-> NoExc] :
          q \in {r \in DistinctSeqs(MaxContents) :
                   Len(r) >= 1 /\ \A i, j \in 1..Len(r) : r[i] = r[j] => i = j}}
  \cup {[ok |-> FALSE, hasContents |-> FALSE, suffixes |-> <<>>, err |-> e] :
          e \in StoreErrors}

OSError == Exc("OSError", FALSE, "")

(* ------------------------ side effects, in order ----------------------- *)

GetClient == <<"get_client", "s3">>

Request(api, bucket, key) == <<"request", api, bucket, key>>

Makedirs(path) == <<"makedirs", path>>

Open(name, mode) == <<"open", name, mode>>

File(name, data) == [name |-> name, data |-> data]

(* ------------------------------ cumulus.s3 ----------------------------- *)

\* download(uri, path); isdir, openOk, resp: os.path.isdir(path), whether
\* open(fout, 'wb') succeeds, the answer of download_fileobj
download(uri, path, isdir, openOk, resp) ==
  LET p == uri_parser(uri)
  IN IF p.kind = "raise" THEN Result(p, <<>>, {})
     ELSE
       LET s3_uri == p.value
           fout == os_path_join(path, s3_uri.filename)
           t1 == IF path # <<>> /\ ~isdir THEN <<Makedirs(path)>> ELSE <<>>
           t2 == t1 \o <<GetClient, Open(fout, "wb")>>
           t3 == t2 \o <<Request("download_fileobj", s3_uri.bucket, s3_uri.key)>>
       IN IF ~openOk THEN Result(Raise(OSError), t2, {})
          ELSE IF ~resp.ok THEN Result(Raise(resp.err), t3, {File(fout, <<>>)})
          ELSE Result(Return(fout), t3, {File(fout, resp.body)})

download_json(uri, resp) ==
  LET p == uri_parser(uri)
  IN IF p.kind = "raise" THEN Result(p, <<GetClient>>, {})
     ELSE
       LET s3_uri == p.value
           t == <<GetClient, Request("get_object", s3_uri.bucket, s3_uri.key)>>
       IN IF ~resp.ok THEN Result(Raise(resp.err), t, {})
          ELSE Result(json_loads(resp.body), t, {})

\* upload(filename, uri); openOk: whether open(filename, 'rb') succeeds
upload(filename, uri, openOk, resp) ==
  LET p == uri_parser(uri)
  IN IF p.kind = "raise" THEN Result(p, <<GetClient>>, {})
     ELSE
       LET s3_uri == p.value
           bname == os_path_basename(filename)
           uri_out == S3Prefix \o os_path_join(s3_uri.bucket,
                                               os_path_join(s3_uri.key, bname))
           t1 == <<GetClient, Open(filename, "rb")>>
           t2 == t1 \o <<Request("upload_fileobj", s3_uri.bucket,
                                 os_path_join(s3_uri.key, bname))>>
       IN IF ~openOk THEN Result(Raise(OSError), t1, {})
          ELSE IF ~resp.ok THEN Result(Raise(resp.err), t2, {})
          ELSE Result(Return(uri_out), t2, {})

\* the keys the store reports for Prefix = prefix
Contents(prefix, resp) == [i \in 1..Len(resp.suffixes) |-> prefix \o resp.suffixes[i]]

list(uri, resp) ==
  LET p == uri_parser(uri)
  IN IF p.kind = "raise" THEN Result(p, <<GetClient>>, {})
     ELSE
       LET s3_uri == p.value
           t == <<GetClient, Request("list_objects_v2", s3_uri.bucket, s3_uri.key)>>
           keys == Contents(s3_uri.key, resp)
           filenames == IF resp.hasContents
                        THEN [i \in 1..Len(keys) |->
                                os_path_join(S3Prefix \o s3_uri.bucket, keys[i])]
                        ELSE <<>>
       IN IF ~resp.ok THEN Result(Raise(resp.err), t, {})
          ELSE Result(Return(filenames), t, {})

\* a delete without the try/except
delete_reraise(uri, resp) ==
  LET p == uri_parser(uri)
  IN IF p.kind = "raise" THEN Result(p, <<GetClient>>, {})
     ELSE
       LET s3_uri == p.value
           t == <<GetClient, Request("delete_object", s3_uri.bucket, s3_uri.key)>>
       IN IF resp.ok THEN Result(Return(TRUE), t, {})
          ELSE Result(Raise(resp.err), t, {})

delete(uri, resp) ==
  LET p == uri_parser(uri)
  IN IF p.kind = "raise" THEN Result(p, <<GetClient>>, {})
     ELSE
       LET s3_uri == p.value
           t == <<GetClient, Request("delete_object", s3_uri.bucket, s3_uri.key)>>
       IN IF resp.ok THEN Result(Return(TRUE), t, {})
          ELSE Result(Return(FALSE), t, {})

\* in the handler, e.response['Error']['Code'] is evaluated first: an
\* exception with no .response attribute raises AttributeError there
exists(uri, resp) ==
  LET p == uri_parser(uri)
  IN IF p.kind = "raise" THEN Result(p, <<GetClient>>, {})
     ELSE
       LET s3_uri == p.value
           t == <<GetClient, Request("get_object", s3_uri.bucket, s3_uri.key)>>
       IN IF resp.ok THEN Result(Return(TRUE), t, {})
          ELSE IF ~resp.err.hasResponse
            THEN Result(Raise(Exc("AttributeError", FALSE, "")), t, {})
          ELSE IF resp.err.code = "NoSuchKey" THEN Result(Return(FALSE), t, {})
          ELSE Result(Raise(resp.err), t, {})

(* --------------------------- cumulus_process.cli ----------------------- *)

T_process == <<"p", "r", "o", "c", "e", "s", "s">>

T_recipe == <<"r", "e", "c", "i", "p", "e">>

T_activity == <<"a", "c", "t", "i", "v", "i", "t", "y">>

Opt_path == <<"-", "-", "p", "a", "t", "h">>

Opt_loglevel == <<"-", "-", "l", "o", "g", "l", "e", "v", "e", "l">>

Opt_noclean == <<"-", "-", "n", "o", "c", "l", "e", "a", "n">>

Opt_arn == <<"-", "-", "a", "r", "n">>

Opt_version == <<"-", "-", "v", "e", "r", "s", "i", "o", "n">>

\* choices of the subparsers action, dest='command'
Commands == {"process", "recipe", "activity"}

CommandOf(tok) ==
  IF tok = T_process THEN "process"
  ELSE IF tok = T_recipe THEN "recipe"
  ELSE IF tok = T_activity THEN "activity"
  ELSE None

\* argparse: a token that starts with '-' is an option string
IsOption(tok) == Len(tok) > 0 /\ tok[1] = "-"

Digits == {"0", "1", "2", "3", "4", "5", "6", "7", "8", "9"}

DigitValue(c) == CHOOSE n \in 0..9 : <<"0", "1", "2", "3", "4", "5", "6", "7", "8", "9">>[n + 1] = c

\* type=int on a token of decimal digits
IsInt(tok) == Len(tok) > 0 /\ \A i \in 1..Len(tok) : tok[i] \in Digits

RECURSIVE ToInt(_)
ToInt(tok) ==
  IF Len(tok) = 0 THEN 0
  ELSE 10 * ToInt(SubSeq(tok, 1, Len(tok) - 1)) + DigitValue(tok[Len(tok)])

\* default of --loglevel
DefaultLoglevel == 2

\* the namespace of a subparser before any token: the defaults of pparser
\* and of the subcommand's own arguments ('pos': the positionals matched)
Defaults ==
  [path |-> <<>>, loglevel |-> DefaultLoglevel, noclean |-> FALSE, arn |-> None,
   pos |-> <<>>, posDone |-> FALSE, extras |-> FALSE]

SysExit(code) == [kind |-> "exit", code |-> code, ns |-> Defaults]

Parsed(ns) == [kind |-> "ok", code |-> 0, ns |-> ns]

\* options of the subparser of cmd that take one argument
TakesValue(cmd, tok) ==
  tok \in {Opt_path, Opt_loglevel} \/ (cmd = "activity" /\ tok = Opt_arn)

\* last index of the run of non-option tokens that starts at i
RECURSIVE RunEnd(_, _)
RunEnd(toks, i) ==
  IF i < Len(toks) /\ ~IsOption(toks[i + 1]) THEN RunEnd(toks, i + 1) ELSE i

\* ArgumentParser._parse_known_args of the subparser of cmd, from token i:
\* options act in order (--version exits at once, a missing or non-int
\* value is an error at once), the first run of non-option tokens feeds the
\* positional (filenames: the whole run, recipe: one token), everything
\* unmatched is an error at the end
RECURSIVE Scan(_, _, _, _)
Scan(cmd, toks, i, st) ==
  IF i > Len(toks)
  THEN IF (cmd = "recipe" /\ ~st.posDone) \/ st.extras THEN SysExit(2) ELSE Parsed(st)
  ELSE
    LET tok == toks[i]
    IN IF tok = Opt_version THEN SysExit(0)
       ELSE IF TakesValue(cmd, tok)
         THEN IF i = Len(toks) \/ IsOption(toks[i + 1]) THEN SysExit(2)
              ELSE IF tok = Opt_path
                THEN Scan(cmd, toks, i + 2, [st EXCEPT !.path = toks[i + 1]])
              ELSE IF tok = Opt_arn
                THEN Scan(cmd, toks, i + 2, [st EXCEPT !.arn = toks[i + 1]])
              ELSE IF IsInt(toks[i + 1])
                THEN Scan(cmd, toks, i + 2, [st EXCEPT !.loglevel = ToInt(toks[i + 1])])
              ELSE SysExit(2)
       ELSE IF cmd = "recipe" /\ tok = Opt_noclean
         THEN Scan(cmd, toks, i + 1, [st EXCEPT !.noclean = TRUE])
       ELSE IF IsOption(tok)
         THEN Scan(cmd, toks, i + 1, [st EXCEPT !.extras = TRUE])
       ELSE
         LET j == RunEnd(toks, i)
         IN IF st.posDone \/ cmd = "activity"
            THEN Scan(cmd, toks, j + 1, [st EXCEPT !.extras = TRUE])
            ELSE IF cmd = "process"
              THEN Scan(cmd, toks, j + 1,
                        [st EXCEPT !.pos = SubSeq(toks, i, j), !.posDone = TRUE])
            ELSE Scan(cmd, toks, j + 1,
                      [st EXCEPT !.pos = <<tok>>, !.posDone = TRUE,
                                 !.extras = st.extras \/ j > i])

\* vars(namespace): the keys present and their values (None when absent)
Namespace(keys, command, st) ==
  [keys |-> keys, command |-> command,
   path |-> IF "path" \in keys THEN st.path ELSE None,
   loglevel |-> IF "loglevel" \in keys THEN st.loglevel ELSE 0,
   filenames |-> IF "filenames" \in keys THEN st.pos ELSE <<>>,
   recipe |-> IF "recipe" \in keys THEN st.pos[1] ELSE None,
   noclean |-> IF "noclean" \in keys THEN st.noclean ELSE FALSE,
   arn |-> IF "arn" \in keys THEN st.arn ELSE None]

OwnKeys(cmd) ==
  IF cmd = "process" THEN {"filenames"}
  ELSE IF cmd = "recipe" THEN {"recipe", "noclean"}
  ELSE {"arn"}

\* parse_args(cls, args) with cls.add_parser_args returning the parser as
\* it got it; the first token is no option string.  Without a subcommand
\* no subparser runs, so only 'command' is set; a first token that is no
\* choice is an argparse error
parse_args(args) ==
  IF Len(args) = 0 THEN Parsed(Namespace({"command"}, None, Defaults))
  ELSE LET cmd == CommandOf(args[1])
       IN IF cmd \notin Commands THEN SysExit(2)
          ELSE LET r == Scan(cmd, args, 2, Defaults)
               IN IF r.kind = "exit" THEN r
                  ELSE Parsed(Namespace({"command", "path", "loglevel"} \cup OwnKeys(cmd),
                                        cmd, r.ns))

\* keyword arguments of a call of cls.run
Kwargs(keys, noclean, path, filenames, recipe) ==
  [keys |-> keys, noclean |-> noclean, path |-> path,
   filenames |-> filenames, recipe |-> recipe]

\* both branches calling cls.run(**args)
run_kwargs_same(cmd, args) ==
  IF cmd = "process"
  THEN Kwargs({"path", "filenames"}, FALSE, args.path, args.filenames, None)
  ELSE Kwargs({"recipe", "noclean", "path"}, args.noclean, args.path, <<>>, args.recipe)

\* cls.run(noclean=True, **args) when process, cls.run(**args) when recipe
run_kwargs(cmd, args) ==
  IF cmd = "process"
  THEN Kwargs({"noclean", "path", "filenames"}, TRUE, args.path, args.filenames, None)
  ELSE Kwargs({"recipe", "noclean", "path"}, args.noclean, args.path, <<>>, args.recipe)

OutJson == <<"_", "o", "u", "t", ".", "j", "s", "o", "n">>

\* fname of the recipe branch
out_fname(args) ==
  LET bname == splitext_root(os_path_basename(args.recipe))
  IN os_path_join(args.path, bname \o OutJson)

\* answers of the Granule class: run returns a payload or raises
RunResults == {Ok(d) : d \in JsonDocs \cup {NotSerializable}}
              \cup {Failed(Exc("RuntimeError", FALSE, ""))}

\* activity polls forever, or raises, or returns
ActivityResults == {"blocks", "raises", "returns"}

UnknownCommand == "Unknown command (choose between: process, recipe, activity)"

\* cli(cls) with sys.argv[1:] = argv
cli(argv, runRes, actRes, openOk) ==
  LET parsed == parse_args(argv)
      args == parsed.ns
      cmd == args.command
      t0 == <<<<"setLevel", args.loglevel * 10>>>>
  IN IF parsed.kind = "exit"
     THEN Result(Raise(Exc("SystemExit", FALSE, IF parsed.code = 0 THEN "0" ELSE "2")),
                 <<>>, {})
     ELSE IF "loglevel" \notin args.keys
     THEN Result(Raise(Exc("KeyError", FALSE, "loglevel")), <<>>, {})
     ELSE IF cmd = "process"
     THEN LET t1 == t0 \o <<<<"run", run_kwargs(cmd, args)>>>>
          IN IF runRes.ok THEN Result(Return(None), t1, {})
             ELSE Result(Raise(runRes.err), t1, {})
     ELSE IF cmd = "recipe"
     THEN LET t1 == t0 \o <<<<"run", run_kwargs(cmd, args)>>>>
              payload == runRes.body
              fname == out_fname(args)
              t2 == t1 \o <<Open(fname, "w")>>
          IN IF ~runRes.ok THEN Result(Raise(runRes.err), t1, {})
             ELSE IF ~openOk THEN Result(Raise(OSError), t2, {})
             ELSE IF payload = NotSerializable
               THEN Result(Raise(Exc("TypeError", FALSE, "")), t2, {File(fname, <<>>)})
             ELSE Result(Return(None), t2, {File(fname, json_dumps(payload))})
     ELSE IF cmd = "activity"
     THEN LET t1 == t0 \o <<<<"activity", args.arn>>>>
          IN IF actRes = "blocks"
             THEN Result([kind |-> "blocked", value |-> None, exc |-> NoExc], t1, {})
             ELSE IF actRes = "raises"
             THEN Result(Raise(Exc("RuntimeError", FALSE, "")), t1, {})
             ELSE Result(Return(None), t1, {})
     ELSE Result(Return(None), t0 \o <<<<"logger.error", UnknownCommand>>>>, {})

(* ------------------------------- inputs -------------------------------- *)

Pieces == {S3Prefix, Slash, <<"a">>, <<"b">>}

RECURSIVE Concats(_)
Concats(n) ==
  IF n = 0 THEN {<<>>}
  ELSE LET prev == Concats(n - 1)
       IN prev \cup {q \o x : q \in prev, x \in Pieces}

Uris == Concats(MaxPieces)

LocalDirs == {<<>>, <<"d">>, <<"d", "/">>}

LocalFiles == {<<"f">>, <<"d", "/", "f">>}

Call(op, uri, arg, argv) == [op |-> op, uri |-> uri, arg |-> arg, argv |-> argv]

\* command line tokens after the subcommand
Tokens == {Opt_path, Opt_loglevel, Opt_noclean, Opt_arn, Opt_version,
           <<"a", ".", "t", "x", "t">>, <<"d", "/", "r", ".", "j", "s", "o", "n">>,
           <<"1">>, <<"/", "t", "/">>}

RECURSIVE TokenSeqs(_)
TokenSeqs(n) ==
  IF n = 0 THEN {<<>>}
  ELSE LET prev == TokenSeqs(n - 1)
       IN prev \cup {Append(q, x) : q \in prev, x \in Tokens}

\* sys.argv[1:]: nothing, or a first word and up to MaxArgs tokens
Argvs ==
  {<<>>} \cup {<<c>> \o q :
                 c \in {T_process, T_recipe, T_activity, <<"b", "o", "g", "u", "s">>},
                 q \in TokenSeqs(MaxArgs)}

CliCalls == {Call("cli", <<>>, <<>>, a) : a \in Argvs}

S3Calls ==
  {Call(op, u, <<>>, <<>>) :
     op \in {"uri_parser", "download_json", "list", "delete", "exists"}, u \in Uris}
  \cup {Call("download", u, d, <<>>) : u \in Uris, d \in LocalDirs}
  \cup {Call("upload", u, f, <<>>) : u \in Uris, f \in LocalFiles}

NotRun == [kind |-> "none", value |-> None, exc |-> NoExc]

\* the answers of the outside world during one call
World(isdir, openOk, resp, runRes, actRes) ==
  [isdir |-> isdir, openOk |-> openOk, resp |-> resp, runRes |-> runRes,
   actRes |-> actRes]

NoWorld == World(FALSE, FALSE, Ok(<<>>), Ok(PyNone), "returns")

Init ==
  /\ call \in S3Calls \cup CliCalls
  /\ pc = "called"
  /\ world = NoWorld
  /\ outcome = NotRun
  /\ trace = <<>>
  /\ files = {}

\* the call runs to its end with result r
Finish(r, w) ==
  /\ pc' = "done"
  /\ world' = w
  /\ outcome' = r.outcome
  /\ trace' = r.trace
  /\ files' = r.files
  /\ UNCHANGED call

Called(op) == pc = "called" /\ call.op = op

DoUriParser == Called("uri_parser") /\ Finish(Result(uri_parser(call.uri), <<>>, {}), NoWorld)

DoDownload ==
  /\ Called("download")
  /\ \E isdir \in BOOLEAN, openOk \in BOOLEAN, resp \in GetResponses :
       Finish(download(call.uri, call.arg, isdir, openOk, resp),
              World(isdir, openOk, resp, Ok(PyNone), "returns"))

DoDownloadJson ==
  /\ Called("download_json")
  /\ \E resp \in GetResponses : Finish(download_json(call.uri, resp), [NoWorld EXCEPT !.resp = resp])

DoUpload ==
  /\ Called("upload")
  /\ \E openOk \in BOOLEAN, resp \in PutResponses :
       Finish(upload(call.arg, call.uri, openOk, resp),
              World(FALSE, openOk, resp, Ok(PyNone), "returns"))

DoList ==
  /\ Called("list")
  /\ \E resp \in ListResponses : Finish(list(call.uri, resp), [NoWorld EXCEPT !.resp = resp])

DoDelete ==
  /\ Called("delete")
  /\ \E resp \in PutResponses : Finish(delete(call.uri, resp), [NoWorld EXCEPT !.resp = resp])

DoExists ==
  /\ Called("exists")
  /\ \E resp \in GetResponses : Finish(exists(call.uri, resp), [NoWorld EXCEPT !.resp = resp])

DoCli ==
  /\ Called("cli")
  /\ \E runRes \in RunResults, actRes \in ActivityResults, openOk \in BOOLEAN :
       Finish(cli(call.argv, runRes, actRes, openOk),
              World(FALSE, openOk, Ok(<<>>), runRes, actRes))

Next ==
  \/ DoUriParser
  \/ DoDownload
  \/ DoDownloadJson
  \/ DoUpload
  \/ DoList
  \/ DoDelete
  \/ DoExists
  \/ DoCli

Spec == Init /\ [][Next]_vars

(* ------------------------------- claims -------------------------------- *)

Done(op) == pc = "done" /\ call.op = op

Last(q) == q[Len(q)]

\* the events of the trace that touch the store or the local file system
Effects == {i \in 1..Len(trace) : trace[i][1] \in {"request", "makedirs", "open"}}

\* the indices of the calls of the processor's methods in the trace
ProcessorCalls == {i \in 1..Len(trace) : trace[i][1] \in {"run", "activity"}}

LocatorOps == {"download", "download_json", "upload", "list", "delete", "exists"}

\* C1: for every locator s3://B/K1/.../Kn (n >= 1, segments without '/',
\* empty segments kept) uri_parser returns bucket B, key K1/.../Kn joined
\* by '/' and filename Kn.
C1_ParsesSegments ==
  (Done("uri_parser") /\ StartsWith(call.uri, S3Prefix)) =>
    LET segs == Split(Drop(call.uri, Len(S3Prefix)))
    IN Len(segs) >= 2 =>
         /\ outcome.kind = "return"
         /\ outcome.value = [bucket |-> segs[1],
                             key |-> Join(Tail(segs)),
                             filename |-> Last(segs)]

\* C2: for every string uri_parser accepts, the filename is the last
\* slash-delimited component of the key and the bucket is the first path
\* segment after the scheme prefix.
C2_FilenameIsLastKeyComponent ==
  (Done("uri_parser") /\ outcome.kind = "return") =>
    /\ outcome.value.filename = Last(Split(outcome.value.key))
    /\ outcome.value.bucket = Split(Drop(call.uri, Len(S3Prefix)))[1]

\* C3: the uri upload returns parses back to exactly the bucket and the key
\* under which upload stored the object, so that a download of it fetches
\* the bytes uploaded.
C3_UploadRoundTrip ==
  (Done("upload") /\ outcome.kind = "return") =>
    LET stored == Last(trace)
        p == uri_parser(outcome.value)
    IN /\ stored[2] = "upload_fileobj"
       /\ p.kind = "return"
       /\ p.value.bucket = stored[3]
       /\ p.value.key = stored[4]

\* C4: exists returns true when the read succeeds, false when the store
\* reports NoSuchKey, and raises the original error of every other failure
\* of the read, whether or not it carries an error code.
C4_ExistsClassifies ==
  (Done("exists") /\ StartsWith(call.uri, S3Prefix)) =>
    IF world.resp.ok THEN outcome = Return(TRUE)
    ELSE IF world.resp.err.hasResponse /\ world.resp.err.code = "NoSuchKey"
      THEN outcome = Return(FALSE)
    ELSE outcome = Raise(world.resp.err)

\* C5: delete returns false, and raises nothing, when the delete request
\* fails for any reason, and returns true when the request succeeds.
C5_DeleteReturnsBoolean ==
  (Done("delete") /\ StartsWith(call.uri, S3Prefix)) =>
    /\ Effects # {}
    /\ outcome = Return(world.resp.ok)

C5_Witness ==
  /\ Done("delete")
  /\ StartsWith(call.uri, S3Prefix)
  /\ ~world.resp.ok
  /\ ~world.resp.err.hasResponse
  /\ outcome = Return(FALSE)

\* C6: with a command that is none of process, recipe, activity, or with no
\* subcommand, cli logs the error that names the three choices and returns
\* normally, calls neither run nor activity and writes no file.
C6_UnknownCommandIsLogged ==
  (Done("cli") /\ (Len(call.argv) = 0 \/ CommandOf(call.argv[1]) \notin Commands)) =>
    /\ outcome = Return(None)
    /\ \E i \in 1..Len(trace) : trace[i] = <<"logger.error", UnknownCommand>>
    /\ ProcessorCalls = {}
    /\ files = {}

\* C7: an invocation of cli whose command line parse_args accepts with one
\* of the three subcommands calls exactly one method of the processor,
\* once: process calls run with noclean=True, the filenames and the path,
\* recipe calls run with the recipe, activity calls activity with the arn
\* and writes no file.
C7_OneProcessorCall ==
  (Done("cli") /\ parse_args(call.argv).kind = "ok" /\ Len(call.argv) > 0) =>
    LET ns == parse_args(call.argv).ns
    IN /\ Cardinality(ProcessorCalls) = 1
       /\ LET c == trace[CHOOSE i \in ProcessorCalls : TRUE]
          IN IF ns.command = "process"
             THEN /\ c[1] = "run"
                  /\ c[2].keys = {"noclean", "path", "filenames"}
                  /\ c[2].noclean = TRUE
                  /\ c[2].filenames = ns.filenames
                  /\ c[2].path = ns.path
                  /\ files = {}
             ELSE IF ns.command = "recipe"
             THEN /\ c[1] = "run"
                  /\ "recipe" \in c[2].keys
                  /\ c[2].recipe = ns.recipe
             ELSE /\ ns.command = "activity"
                  /\ c = <<"activity", ns.arn>>
                  /\ files = {}
                  /\ Effects = {}

C7_Witness ==
  /\ Done("cli")
  /\ parse_args(call.argv).kind = "ok"
  /\ Len(call.argv) > 0
  /\ parse_args(call.argv).ns.command = "process"
  /\ Len(parse_args(call.argv).ns.filenames) = 2
  /\ outcome = Return(None)
  /\ Cardinality(ProcessorCalls) = 1

\* <path>/<leaf>: leaf in the directory path, the current one when path
\* is empty
C8_InDirectory(path, leaf) ==
  IF path = <<>> THEN leaf
  ELSE IF Last(path) = "/" THEN path \o leaf
  ELSE path \o Slash \o leaf

\* the base name of a recipe reference without its extension: what
\* follows the last '/', cut before its last '.' when that dot follows a
\* character other than '.'
C8_Stem(recipe) ==
  LET slashes == {i \in 1..Len(recipe) : recipe[i] = "/"}
      start == IF slashes = {} THEN 1
               ELSE 1 + CHOOSE i \in slashes : \A j \in slashes : j <= i
      cuts == {i \in start..Len(recipe) :
                 /\ recipe[i] = "."
                 /\ \A j \in (i + 1)..Len(recipe) : recipe[j] # "."
                 /\ \E j \in start..(i - 1) : recipe[j] # "."}
  IN IF cuts = {} THEN SubSeq(recipe, start, Len(recipe))
     ELSE SubSeq(recipe, start, (CHOOSE i \in cuts : TRUE) - 1)

\* C8: the recipe subcommand, when it completes, has written exactly one
\* file, <path>/<recipe base name without extension>_out.json, holding the
\* serialized document run returned; the file is opened only after run
\* has returned, and when run fails no file is opened or written.
C8_RecipeWritesOneFile ==
  (Done("cli") /\ parse_args(call.argv).kind = "ok" /\ Len(call.argv) > 0
     /\ parse_args(call.argv).ns.command = "recipe") =>
    LET ns == parse_args(call.argv).ns
        name == C8_InDirectory(ns.path, C8_Stem(ns.recipe) \o OutJson)
    IN /\ outcome.kind = "return" =>
            /\ world.runRes.ok
            /\ files = {File(name, json_dumps(world.runRes.body))}
            /\ Cardinality(Effects) = 1
       /\ \A i \in Effects :
            /\ trace[i] = Open(name, "w")
            /\ \E j \in ProcessorCalls : j < i
       /\ \A f \in files : f.name = name
       /\ ~world.runRes.ok =>
            /\ outcome = Raise(world.runRes.err)
            /\ files = {}
            /\ Effects = {}

C8_Witness ==
  /\ Done("cli")
  /\ Len(call.argv) > 0
  /\ parse_args(call.argv).kind = "ok"
  /\ parse_args(call.argv).ns.command = "recipe"
  /\ parse_args(call.argv).ns.path # <<>>
  /\ parse_args(call.argv).ns.recipe # C8_Stem(parse_args(call.argv).ns.recipe)
  /\ outcome.kind = "return"
  /\ world.runRes.body.items # <<>>
  /\ Cardinality(files) = 1

\* C9: list returns one string per object the store reports, in the
\* reported order, each the locator s3://<bucket>/<object key>, which
\* uri_parser maps back to that bucket and that key; it returns the empty
\* sequence when the response has no contents.
C9_ListReturnsLocators ==
  (Done("list") /\ StartsWith(call.uri, S3Prefix) /\ world.resp.ok) =>
    LET s3_uri == uri_parser(call.uri).value
        keys == Contents(s3_uri.key, world.resp)
    IN /\ outcome.kind = "return"
       /\ IF ~world.resp.hasContents THEN outcome.value = <<>>
          ELSE /\ Len(outcome.value) = Len(keys)
               /\ \A i \in 1..Len(keys) :
                    /\ outcome.value[i] = S3Prefix \o s3_uri.bucket \o Slash \o keys[i]
                    /\ uri_parser(outcome.value[i]).kind = "return"
                    /\ uri_parser(outcome.value[i]).value.bucket = s3_uri.bucket
                    /\ uri_parser(outcome.value[i]).value.key = keys[i]

\* C10: download, download_json, upload, list, delete and exists, called
\* with a string that does not begin with s3://, raise the invalid uri
\* exception before any store request, any directory creation and any
\* open of a file; delete and exists raise it too.
C10_InvalidUriRaisesFirst ==
  (pc = "done" /\ call.op \in LocatorOps /\ ~StartsWith(call.uri, S3Prefix)) =>
    /\ outcome = Raise(InvalidS3Uri)
    /\ Effects = {}
    /\ files = {}

C10_Witness ==
  /\ Done("delete")
  /\ Len(call.uri) > Len(S3Prefix)
  /\ ~StartsWith(call.uri, S3Prefix)
  /\ ~world.resp.ok
  /\ outcome = Raise(InvalidS3Uri)

====
